---- MODULE Spec2Model ----
(***************************************************************************)
(* A model of biosignalml's HDF5 signal access layer                       *)
(* (src/formats/hdf5/__init__.py: HDF5Signal.read, HDF5Signal.append) and  *)
(* of the Recording signal directory (src/model/__init__.py:               *)
(* Recording.add_signal, get_signal, signals).                             *)
(*                                                                         *)
(* Times (timestamps, interval end points, durations) are integers in      *)
(* units of 1/TimeDen second.  Python's None is the empty tuple << >>, a   *)
(* given argument is a tuple holding it.                                   *)
(***************************************************************************)
EXTENDS Integers, Sequences, FiniteSets, TLC

VARIABLES
  kind,        \* "Uniform" | "Explicit": the variant of the signal's clock
  rate,        \* self.rate: << >> (None) for an Explicit signal, <<r>> else
  h5data,      \* the stored sample values of the signal (self._h5)
  h5clock,     \* the stored timestamps of the signal's clock (h5.clock)
  short,       \* whether the store may return fewer samples than asked for
  closed,      \* whether the Recording's store has been closed
  rd,          \* the read sequences (generators): reader -> frame
  ap,          \* the append call in flight and the result of the last one
  recs,        \* Recording objects: recording -> [uris, map]
  sigs,        \* Signal objects: signal -> [uri, recording]
  last         \* the last Recording operation and what it returned or raised

vars == <<kind, rate, h5data, h5clock, short, closed, rd, ap, recs, sigs, last>>
sigvars == <<kind, rate, h5data, h5clock, short, closed, rd, ap>>
recvars == <<recs, sigs, last>>

----------------------------------------------------------------------------
(* Bounds of the model *)

MaxLen  == 3      \* most samples a signal holds
MaxTime == 2      \* largest timestamp and interval end point, in ticks
MaxDur  == 3      \* largest maxduration argument, in ticks
MaxSegs == 5      \* most segments one read sequence is followed for
TimeDen == 2      \* ticks per second

(* BSMLSignal.MAXPOINTS, the ceiling on one chunk (scaled down) *)
MAXPOINTS == 2

None == << >>
Some(x) == <<x>>

Min(a, b) == IF a <= b THEN a ELSE b
Max(a, b) == IF a >= b THEN a ELSE b

Times  == 0 .. MaxTime
Rates  == {1, 3}
Index  == -1 .. MaxLen

\* The code never looks into a sample value: the i-th value ever stored is
\* the token Sample(i), so that every stored value differs from every other
Sample(i) == 10 + i

RECURSIVE Concat(_)
Concat(ss) == IF ss = << >> THEN << >> ELSE Head(ss) \o Concat(Tail(ss))

NonDecreasing(s) == \A i \in 1 .. Len(s) - 1 : s[i] <= s[i + 1]

----------------------------------------------------------------------------
(* Python arithmetic and sequences *)

\* int(x) of the rational n/d, d > 0: truncation towards zero
IntTrunc(n, d) == IF n >= 0 THEN n \div d ELSE -((-n) \div d)

\* int(r * (dur/TimeDen) + 0.5)
PointsFromDuration(r, dur) == IntTrunc(2 * r * dur + TimeDen, 2 * TimeDen)

\* s[a:b] of a Python sequence: indices a <= i < b, clipped to the sequence
PyIndex(i, n) == IF i < 0 THEN Max(0, n + i) ELSE Min(i, n)
PySlice(s, a, b) == SubSeq(s, PyIndex(a, Len(s)) + 1, PyIndex(b, Len(s)))

----------------------------------------------------------------------------
(* The store binding and the clocks the access layer calls into *)

\* len(self._h5)
H5Len == Len(h5data)

\* What self._h5[a:b] may return: the stored samples at a <= i < b, or, from
\* a store that returns fewer than asked for, any prefix of them
H5Slice(a, b) ==
  LET full == PySlice(h5data, a, b)
  IN  IF short THEN { SubSeq(full, 1, n) : n \in 0 .. Len(full) } ELSE { full }

\* Whether extend_clock accepts new_times: they are non-decreasing and do not
\* start below the current last timestamp
ExtendClockOk(times) ==
  /\ NonDecreasing(times)
  /\ \/ h5clock = << >>
     \/ times = << >>
     \/ times[1] >= h5clock[Len(h5clock)]

\* Clock.index(t) of an Explicit clock: the position of the first timestamp
\* >= t, the number of timestamps when there is none
ExplicitIndex(t) ==
  LET hits == { i \in 1 .. Len(h5clock) : h5clock[i] >= t }
  IN  IF hits = {} THEN Len(h5clock)
      ELSE (CHOOSE i \in hits : \A j \in hits : i <= j) - 1

\* UniformClock.index(t): round(t * rate), t >= 0 in ticks
UniformIndex(t, r) == (2 * t * r + TimeDen) \div (2 * TimeDen)

\* self.clock.index(t)
ClockIndex(t) ==
  IF kind = "Uniform" THEN UniformIndex(t, rate[1]) ELSE ExplicitIndex(t)

\* UniformClock[i]: the time i / rate in seconds, as the fraction <<i, rate>>
UniformTime(i, r) == <<i, r>>

\* self.clock[a:b] of an Explicit clock
ClockSlice(a, b) == PySlice(h5clock, a, b)

\* Whether an access through the signal's binding fails: the bindings of a
\* closed store are invalid (StoreClosed)
StoreFails == closed

\* Whether self.recording._h5 is None, lines 148-150: an attribute looked up
\* on it raises AttributeError
HandleReleased == closed

----------------------------------------------------------------------------
(* HDF5Signal.read *)

Readers == DOMAIN rd

\* Python truth of an optional number: None and 0 are false
Truthy(opt) == opt # None /\ opt[1] # 0

\* ResolveMaxPoints taking the larger of the two caps
ResolveMaxPointsMax(maxduration, maxpoints, r) ==
  LET pts == PointsFromDuration(r, maxduration[1])
      mp  == IF Truthy(maxduration)
             THEN IF Truthy(maxpoints) THEN Some(Max(maxpoints[1], pts))
                  ELSE Some(pts)
             ELSE maxpoints
  IN  IF mp = None \/ ~(0 < mp[1] /\ mp[1] <= MAXPOINTS) THEN MAXPOINTS
      ELSE mp[1]

\* lines 66-71: the chunk cap of a read on a signal of rate r
ResolveMaxPoints(maxduration, maxpoints, r) ==
  LET pts == PointsFromDuration(r, maxduration[1])
      mp  == IF Truthy(maxduration)
             THEN IF Truthy(maxpoints) THEN Some(Min(maxpoints[1], pts))
                  ELSE Some(pts)
             ELSE maxpoints
  IN  IF mp = None \/ ~(0 < mp[1] /\ mp[1] <= MAXPOINTS) THEN MAXPOINTS
      ELSE mp[1]

\* ResolveSegment with the interval taken as half open: the index of its end
\* time left out
ResolveSegmentHalfOpen(interval, segment) ==
  IF interval # None
  THEN <<ClockIndex(interval[1]), ClockIndex(interval[2]) - 1>>
  ELSE segment

\* lines 75-76: the segment after an interval is translated
ResolveSegment(interval, segment) ==
  IF interval # None
  THEN <<ClockIndex(interval[1]), ClockIndex(interval[2])>>
  ELSE segment

\* OrderSegment leaving the segment in the order it was given
OrderSegmentAsGiven(segment) == segment

\* lines 82-83
OrderSegment(segment) ==
  IF segment[1] <= segment[2] THEN segment ELSE <<segment[2], segment[1]>>

\* StartAndLength with the end point of the segment left out of the range
StartAndLengthExclusive(segment) ==
  IF segment = None THEN <<0, H5Len>>
  ELSE LET seg == OrderSegment(segment)
           startpos == Max(0, seg[1])
       IN  <<startpos, Min(H5Len, seg[2]) - startpos>>

\* StartAndLength with the range running to the end of the signal whatever
\* the end point of the segment is
StartAndLengthToEnd(segment) ==
  IF segment = None THEN <<0, H5Len>>
  ELSE LET seg == OrderSegment(segment)
           startpos == Max(0, seg[1])
       IN  <<startpos, H5Len - startpos>>

\* lines 78-86: <<startpos, length>>
StartAndLength(segment) ==
  IF segment = None THEN <<0, H5Len>>
  ELSE LET seg == OrderSegment(segment)
           startpos == Max(0, seg[1])
       IN  <<startpos, Min(H5Len, seg[2] + 1) - startpos>>

\* Segment with start 0 for a Uniform clock as for an Explicit one
SegmentStartZero(startpos, maxpoints, data) ==
  IF kind = "Uniform"
  THEN [start |-> <<0, 1>>, data |-> data, times |-> None]
  ELSE [start |-> <<0, 1>>, data |-> data,
        times |-> ClockSlice(startpos, startpos + maxpoints)]

\* lines 91-94: the DataSegment yielded for data read at startpos
Segment(startpos, maxpoints, data) ==
  IF kind = "Uniform"
  THEN [start |-> UniformTime(startpos, rate[1]), data |-> data, times |-> None]
  ELSE [start |-> <<0, 1>>, data |-> data,
        times |-> ClockSlice(startpos, startpos + maxpoints)]

\* The frame of a read sequence that was never created.  interval, segment,
\* maxduration, maxpointsArg are the arguments; seg, startpos, length,
\* maxpoints the locals of those names; n is len(data) of the chunk last
\* yielded, len0 the value len(self) returned, segs the segments yielded so
\* far, nreq the number of calls made to the store and to a stored clock
NoRead ==
  [pc |-> "none", interval |-> None, segment |-> None, maxduration |-> None,
   maxpointsArg |-> None, seg |-> None, startpos |-> 0, length |-> 0,
   maxpoints |-> 0, n |-> 0, len0 |-> 0, segs |-> << >>, nreq |-> 0,
   err |-> ""]

\* read(interval, segment, maxduration, maxpoints): creates the generator;
\* none of its body runs yet
ReadCall(r, interval, segment, maxduration, maxpoints) ==
  /\ rd' = [rd EXCEPT ![r] =
              [NoRead EXCEPT !.pc = "created", !.interval = interval,
                             !.segment = segment, !.maxduration = maxduration,
                             !.maxpointsArg = maxpoints]]
  /\ UNCHANGED <<kind, rate, h5data, h5clock, short, closed, ap, recvars>>

\* The caller drops a read sequence, wherever it stands
ReadDrop(r) ==
  /\ rd[r].pc # "none"
  /\ rd' = [rd EXCEPT ![r] = NoRead]
  /\ UNCHANGED <<kind, rate, h5data, h5clock, short, closed, ap, recvars>>

\* lines 88-94: the loop test and, when it passes, one chunk read and yielded
ReadLoop(r, f) ==
  IF f.length > 0
  THEN LET mp == IF f.maxpoints > f.length THEN f.length ELSE f.maxpoints
       IN  IF StoreFails
           THEN rd' = [rd EXCEPT ![r] =
                         [f EXCEPT !.pc = "error", !.err = "StoreClosed",
                                   !.maxpoints = mp]]
           ELSE
           /\ Len(f.segs) < MaxSegs
           /\ \E data \in H5Slice(f.startpos, f.startpos + mp) :
                rd' = [rd EXCEPT ![r] =
                         [f EXCEPT !.pc = "yielded", !.maxpoints = mp,
                                   !.n = Len(data),
                                   !.nreq = @ + (IF kind = "Uniform" THEN 1 ELSE 2),
                                   !.segs = Append(@, Segment(f.startpos, mp, data))]]
  ELSE rd' = [rd EXCEPT ![r] = [f EXCEPT !.pc = "done"]]

\* ReadFirst with the test of line 64 made after the cap is worked out
ReadFirstLateCheck(r) ==
  LET f == rd[r]
      both == f.interval # None /\ f.segment # None
      seg == ResolveSegment(f.interval, f.segment)
      sl == StartAndLength(seg)
  IN  /\ f.pc = "created"
      /\ IF Truthy(f.maxduration) /\ rate = None
         THEN rd' = [rd EXCEPT ![r] = [f EXCEPT !.pc = "error", !.err = "TypeError"]]
         ELSE IF both
         THEN rd' = [rd EXCEPT ![r] = [f EXCEPT !.pc = "error", !.err = "ValueError"]]
         ELSE ReadLoop(r, [f EXCEPT
                !.maxpoints = ResolveMaxPoints(f.maxduration, f.maxpointsArg,
                                               IF rate = None THEN 0 ELSE rate[1]),
                !.seg = IF seg = None THEN None ELSE OrderSegment(seg),
                !.startpos = sl[1], !.length = sl[2], !.len0 = H5Len,
                !.nreq = IF f.interval # None /\ kind = "Explicit" THEN 3 ELSE 1])
      /\ UNCHANGED <<kind, rate, h5data, h5clock, short, closed, ap, recvars>>

\* The first next() of a read sequence: lines 64-94
ReadFirst(r) ==
  LET f == rd[r]
      both == f.interval # None /\ f.segment # None
      seg == ResolveSegment(f.interval, f.segment)
      sl == StartAndLength(seg)
  IN  /\ f.pc = "created"
      /\ IF both
         THEN rd' = [rd EXCEPT ![r] = [f EXCEPT !.pc = "error", !.err = "ValueError"]]
         ELSE IF Truthy(f.maxduration) /\ rate = None
         THEN rd' = [rd EXCEPT ![r] = [f EXCEPT !.pc = "error", !.err = "TypeError"]]
         ELSE IF StoreFails
         THEN rd' = [rd EXCEPT ![r] = [f EXCEPT !.pc = "error", !.err = "StoreClosed"]]
         ELSE ReadLoop(r, [f EXCEPT
                !.maxpoints = ResolveMaxPoints(f.maxduration, f.maxpointsArg,
                                               IF rate = None THEN 0 ELSE rate[1]),
                !.seg = IF seg = None THEN None ELSE OrderSegment(seg),
                !.startpos = sl[1], !.length = sl[2], !.len0 = H5Len,
                !.nreq = IF f.interval # None /\ kind = "Explicit" THEN 3 ELSE 1])
      /\ UNCHANGED <<kind, rate, h5data, h5clock, short, closed, ap, recvars>>

\* ReadNext with the cursor left where it was (line 95 missing)
ReadNextNoAdvance(r) ==
  LET f == rd[r]
  IN  /\ f.pc = "yielded"
      /\ ReadLoop(r, [f EXCEPT !.length = @ - f.n])
      /\ UNCHANGED <<kind, rate, h5data, h5clock, short, closed, ap, recvars>>

\* ReadNext with one cursor shared by all the read sequences of the signal:
\* a resumed sequence goes on from the furthest position any of them reached
ReadNextSharedCursor(r) ==
  LET f == rd[r]
      ends == { rd[q].startpos + rd[q].n : q \in { x \in Readers : rd[x].pc = "yielded" } }
      c == CHOOSE e \in ends : \A d \in ends : d <= e
  IN  /\ f.pc = "yielded"
      /\ ReadLoop(r, [f EXCEPT !.startpos = c, !.length = @ - (c - f.startpos)])
      /\ UNCHANGED <<kind, rate, h5data, h5clock, short, closed, ap, recvars>>

\* A later next() of a read sequence: lines 95-96, then 88-94
ReadNext(r) ==
  LET f == rd[r]
  IN  /\ f.pc = "yielded"
      /\ ReadLoop(r, [f EXCEPT !.startpos = @ + f.n, !.length = @ - f.n])
      /\ UNCHANGED <<kind, rate, h5data, h5clock, short, closed, ap, recvars>>

----------------------------------------------------------------------------
(* HDF5Signal.append *)

MaxAppend == 2    \* most samples one appended series holds

\* The TimeSeries values append is called with: an Explicit-clocked series
\* holds as many timestamps as values, a Uniform-clocked one holds none
Series ==
  UNION { LET d == [i \in 1 .. k |-> Sample(Len(h5data) + i)]
          IN  { [data |-> d, times |-> t, explicit |-> TRUE] :
                  t \in [1 .. k -> Times] } \cup
              { [data |-> d, times |-> None, explicit |-> FALSE] }
          : k \in 0 .. MaxAppend }

NoSeries == [data |-> << >>, times |-> None, explicit |-> FALSE]

\* The append frame when no append ever ran: series is the argument, len0
\* the signal's length when append was called, result what the last call did
NoAppend == [pc |-> "idle", series |-> NoSeries, len0 |-> 0, result |-> ""]

\* An append that raised: nothing of it is kept
AppendRaises(error) ==
  ap' = [pc |-> "idle", series |-> NoSeries, len0 |-> H5Len, result |-> error]

\* line 112: extend_signal(self.uri, timeseries.data)
ExtendSignal(timeseries) ==
  /\ h5data' = h5data \o timeseries.data
  /\ ap' = [pc |-> "idle", series |-> timeseries,
            len0 |-> H5Len, result |-> "ok"]

\* AppendCall with the values written before the clock is extended
AppendCallValuesFirst(timeseries) ==
  /\ Len(h5data) + Len(timeseries.data) <= MaxLen
  /\ Len(h5clock) + Len(timeseries.data) <= MaxLen
  /\ IF kind = "Explicit"
     THEN IF ~timeseries.explicit
          THEN AppendRaises("NoTimestamps") /\ UNCHANGED <<h5data, h5clock>>
          ELSE IF ExtendClockOk(timeseries.times)
          THEN /\ h5data' = h5data \o timeseries.data
               /\ ap' = [pc |-> "values", series |-> timeseries,
                         len0 |-> H5Len, result |-> ""]
               /\ UNCHANGED h5clock
          ELSE AppendRaises("InvalidArgument") /\ UNCHANGED <<h5data, h5clock>>
     ELSE ExtendSignal(timeseries) /\ UNCHANGED h5clock
  /\ UNCHANGED <<kind, rate, short, closed, rd, recvars>>

\* AppendCall going on to the values when the clock extension is refused
AppendCallIgnoresRefusal(timeseries) ==
  /\ Len(h5data) + Len(timeseries.data) <= MaxLen
  /\ Len(h5clock) + Len(timeseries.data) <= MaxLen
  /\ IF kind = "Explicit"
     THEN IF ~timeseries.explicit
          THEN AppendRaises("NoTimestamps") /\ UNCHANGED <<h5data, h5clock>>
          ELSE IF ExtendClockOk(timeseries.times)
          THEN /\ h5clock' = h5clock \o timeseries.times
               /\ ap' = [pc |-> "values", series |-> timeseries,
                         len0 |-> H5Len, result |-> ""]
               /\ UNCHANGED h5data
          ELSE /\ ap' = [pc |-> "values", series |-> timeseries,
                         len0 |-> H5Len, result |-> ""]
               /\ UNCHANGED <<h5data, h5clock>>
     ELSE ExtendSignal(timeseries) /\ UNCHANGED h5clock
  /\ UNCHANGED <<kind, rate, short, closed, rd, recvars>>

\* append(timeseries), lines 110-111 and, with no clock to extend, line 112
AppendCall(timeseries) ==
  /\ Len(h5data) + Len(timeseries.data) <= MaxLen
  /\ Len(h5clock) + Len(timeseries.data) <= MaxLen
  /\ IF HandleReleased
     THEN AppendRaises("AttributeError") /\ UNCHANGED <<h5data, h5clock>>
     ELSE IF kind = "Explicit"
     THEN IF ~timeseries.explicit
          THEN AppendRaises("NoTimestamps") /\ UNCHANGED <<h5data, h5clock>>
          ELSE IF ExtendClockOk(timeseries.times)
          THEN /\ h5clock' = h5clock \o timeseries.times
               /\ ap' = [pc |-> "values", series |-> timeseries,
                         len0 |-> H5Len, result |-> ""]
               /\ UNCHANGED h5data
          ELSE AppendRaises("InvalidArgument") /\ UNCHANGED <<h5data, h5clock>>
     ELSE ExtendSignal(timeseries) /\ UNCHANGED h5clock
  /\ UNCHANGED <<kind, rate, short, closed, rd, recvars>>

\* HDF5Recording.close, lines 146-150: closes the store and lets go of it;
\* the signals keep their bindings
Close ==
  /\ ~closed
  /\ closed' = TRUE
  /\ UNCHANGED <<kind, rate, h5data, h5clock, short, rd, ap, recvars>>

\* line 112 of an append whose clock extension returned
AppendValues ==
  /\ ap.pc = "values"
  /\ IF HandleReleased
     THEN AppendRaises("AttributeError") /\ UNCHANGED h5data
     ELSE ExtendSignal(ap.series)
  /\ UNCHANGED <<kind, rate, h5clock, short, closed, rd, recvars>>

----------------------------------------------------------------------------
(* The arguments read is called with *)

SegmentArgs  == {None} \cup (Index \X Index)
IntervalArgs == {None} \cup (Times \X Times)
DurationArgs == {None} \cup { Some(d) : d \in {0, 1, MaxDur} }
PointsArgs   == {None} \cup { Some(p) : p \in -1 .. (MAXPOINTS + 1) }

\* <<interval, segment, maxduration, maxpoints>>: every addressing with every
\* pair of caps; both addressings together with every pair of values and no
\* cap, and with every pair of caps on one pair of values
ReadArgs ==
  { a \in IntervalArgs \X SegmentArgs \X DurationArgs \X PointsArgs :
      \/ a[1] = None \/ a[2] = None
      \/ a[3] = None /\ a[4] = None
      \/ a[1] = <<0, 1>> /\ a[2] = <<0, 1>> }

----------------------------------------------------------------------------------------------------------------------------------------
(* Recording: the signal directory of src/model/__init__.py *)

NRec == 2         \* Recording objects
NSig == 3         \* Signal objects
NUri == 2         \* distinct signal URIs; URI strings are ordered as 1 .. NUri

RecIds == 1 .. NRec
SigIds == 1 .. NSig
Uris   == 1 .. NUri

\* A Uri object of the string s, and str() of the values compared in add_signal:
\* of a Uri its string, of a Recording object its default representation,
\* which is no URI string
Uri(s) == [uri |-> s]
RecUri(r) == Uri(<<"recording", r>>)
RecObj(r) == [obj |-> r]
IsUri(x) == DOMAIN x = {"uri"}
Str(x) == IF IsUri(x) THEN x.uri ELSE <<"object", x.obj>>

\* uri in self._signal_uris: a Uri object equals the string it was made from
UriIn(uri, strs) == \E i \in 1 .. Len(strs) : Str(uri) = strs[i]

\* Recording.__len__, lines 171-173
RecLen(r) == Cardinality(DOMAIN recs[r].map)

\* Python truth of signal.recording: None is false, a Recording object is
\* true when its __len__ is not 0, a Uri is true
RecTruthy(ref) ==
  /\ ref # None
  /\ LET x == ref[1] IN IF IsUri(x) THEN TRUE ELSE RecLen(x.obj) > 0

\* d[k] = v on a dict
DictSet(d, k, v) == [x \in DOMAIN d \cup {k} |-> IF x = k THEN v ELSE d[x]]

\* sorted(list)
RECURSIVE Insert(_, _)
Insert(x, s) ==
  IF s = << >> THEN <<x>>
  ELSE IF x <= Head(s) THEN <<x>> \o s
  ELSE <<Head(s)>> \o Insert(x, Tail(s))

RECURSIVE Sorted(_)
Sorted(s) == IF s = << >> THEN << >> ELSE Insert(Head(s), Sorted(Tail(s)))

\* Recording.signals, lines 137-139
Signals(r) ==
  LET us == Sorted(recs[r].uris)
  IN  [i \in 1 .. Len(us) |-> recs[r].map[us[i]]]

\* list[index] in Python: a negative index counts from the end
ListIndexOk(s, index) == -Len(s) <= index /\ index < Len(s)
ListGet(s, index) == IF index < 0 THEN s[Len(s) + index + 1] ELSE s[index + 1]

\* GetSignal with the index taken as 1-origin, as its docstring has it
GetSignalOneOrigin(r, uri, index) ==
  IF uri = None /\ ~ListIndexOk(recs[r].uris, index - 1) THEN <<"raise", "IndexError">>
  ELSE LET key == IF uri = None THEN ListGet(recs[r].uris, index - 1)
                  ELSE Str(uri[1])
       IN  IF key \in DOMAIN recs[r].map THEN <<"return", recs[r].map[key]>>
           ELSE <<"raise", "KeyError">>

\* Recording.get_signal, lines 159-169: <<"return", signal>> or <<"raise", e>>
GetSignal(r, uri, index) ==
  IF uri = None /\ ~ListIndexOk(recs[r].uris, index) THEN <<"raise", "IndexError">>
  ELSE LET key == IF uri = None THEN ListGet(recs[r].uris, index) ELSE Str(uri[1])
       IN  IF key \in DOMAIN recs[r].map THEN <<"return", recs[r].map[key]>>
           ELSE <<"raise", "KeyError">>

Called(op, r, args, result) ==
  last' = [op |-> op, rec |-> r, args |-> args, result |-> result]

\* AddSignal without the test of lines 150-151
AddSignalNoDuplicateTest(r, s) ==
  LET signal == sigs[s]
  IN  /\ UNCHANGED sigvars
      /\ IF RecTruthy(signal.recording)
                 /\ Str(signal.recording[1]) # Str(RecUri(r))
         THEN /\ Called("add_signal", r, <<s>>, <<"raise", "SignalOwnedElsewhere">>)
              /\ UNCHANGED <<recs, sigs>>
         ELSE /\ sigs' = [sigs EXCEPT ![s].recording = Some(RecObj(r))]
              /\ recs' = [recs EXCEPT
                            ![r].uris = Append(@, Str(signal.uri)),
                            ![r].map = DictSet(@, Str(signal.uri), s)]
              /\ Called("add_signal", r, <<s>>, <<"return", Len(recs[r].uris)>>)

\* AddSignal without the test of lines 152-153
AddSignalNoOwnerTest(r, s) ==
  LET signal == sigs[s]
  IN  /\ UNCHANGED sigvars
      /\ IF UriIn(signal.uri, recs[r].uris)
         THEN /\ Called("add_signal", r, <<s>>, <<"raise", "DuplicateURI">>)
              /\ UNCHANGED <<recs, sigs>>
         ELSE /\ sigs' = [sigs EXCEPT ![s].recording = Some(RecObj(r))]
              /\ recs' = [recs EXCEPT
                            ![r].uris = Append(@, Str(signal.uri)),
                            ![r].map = DictSet(@, Str(signal.uri), s)]
              /\ Called("add_signal", r, <<s>>, <<"return", Len(recs[r].uris)>>)

\* Recording.add_signal, lines 141-157
AddSignal(r, s) ==
  LET signal == sigs[s]
  IN  /\ UNCHANGED sigvars
      /\ IF UriIn(signal.uri, recs[r].uris)
         THEN /\ Called("add_signal", r, <<s>>, <<"raise", "DuplicateURI">>)
              /\ UNCHANGED <<recs, sigs>>
         ELSE IF RecTruthy(signal.recording)
                 /\ Str(signal.recording[1]) # Str(RecUri(r))
         THEN /\ Called("add_signal", r, <<s>>, <<"raise", "SignalOwnedElsewhere">>)
              /\ UNCHANGED <<recs, sigs>>
         ELSE /\ sigs' = [sigs EXCEPT ![s].recording = Some(RecObj(r))]
              /\ recs' = [recs EXCEPT
                            ![r].uris = Append(@, Str(signal.uri)),
                            ![r].map = DictSet(@, Str(signal.uri), s)]
              /\ Called("add_signal", r, <<s>>, <<"return", Len(recs[r].uris)>>)

\* get_signal(uri, index) called
GetSignalCall(r, uri, index) ==
  /\ Called("get_signal", r, <<uri, index>>, GetSignal(r, uri, index))
  /\ UNCHANGED <<recs, sigs, sigvars>>

\* signals() called
SignalsCall(r) ==
  /\ Called("signals", r, << >>, <<"return", Signals(r)>>)
  /\ UNCHANGED <<recs, sigs, sigvars>>

NoCall == [op |-> "", rec |-> 0, args |-> << >>, result |-> << >>]

InitRecording ==
  /\ recs = [r \in RecIds |-> [uris |-> << >>, map |-> << >>]]
  /\ sigs \in [SigIds -> { [uri |-> Uri(u), recording |-> ref] :
                             u \in Uris,
                             ref \in {None} \cup { Some(RecUri(r)) : r \in RecIds } }]
  /\ last = NoCall

NextRec ==
  \/ \E r \in RecIds, s \in SigIds : AddSignal(r, s)
  \/ \E r \in RecIds, u \in {None} \cup { Some(Uri(x)) : x \in Uris },
        i \in -1 .. NSig : GetSignalCall(r, u, i)
  \/ \E r \in RecIds : SignalsCall(r)

----------------
(* The signal under a store that returns what is asked for, and under one   *)
(* that may return less                                                     *)

\* No Recording operation takes part
InitRec ==
  /\ recs = [r \in RecIds |-> [uris |-> << >>, map |-> << >>]]
  /\ sigs = [s \in SigIds |-> [uri |-> Uri(1), recording |-> None]]
  /\ last = NoCall

InitSignal ==
  /\ kind \in {"Uniform", "Explicit"}
  /\ rate \in IF kind = "Uniform" THEN { Some(r) : r \in Rates } ELSE {None}
  /\ h5data = << >>
  /\ h5clock = << >>
  /\ closed = FALSE
  /\ rd = [r \in {1} |-> NoRead]
  /\ ap = NoAppend

Init == InitSignal /\ short = FALSE /\ InitRec

InitShort == InitSignal /\ short = TRUE /\ InitRec

Next ==
  \/ \E r \in Readers :
       /\ rd[r].pc = "none"
       /\ \E a \in ReadArgs : ReadCall(r, a[1], a[2], a[3], a[4])
  \/ \E r \in Readers : ReadDrop(r)
  \/ \E r \in Readers : ReadFirst(r)
  \/ \E r \in Readers : ReadNext(r)
  \/ /\ ap.pc = "idle"
     /\ \E ts \in Series : AppendCall(ts)
  \/ AppendValues

Spec == Init /\ [][Next]_vars

\* Under the store that may return less: reads of the whole signal or of
\* an index range, with no cap or a cap in samples
ReadArgsShort ==
  { a \in ReadArgs : a[1] = None /\ a[3] = None /\ a[4] \in {None, Some(1)} }

NextShort ==
  \/ \E r \in Readers :
       /\ rd[r].pc = "none"
       /\ \E a \in ReadArgsShort : ReadCall(r, a[1], a[2], a[3], a[4])
  \/ \E r \in Readers : ReadDrop(r)
  \/ \E r \in Readers : ReadFirst(r)
  \/ \E r \in Readers : ReadNext(r)
  \/ /\ ap.pc = "idle"
     /\ \E ts \in Series : AppendCall(ts)
  \/ AppendValues

SpecShort == InitShort /\ [][NextShort]_vars

\* The Recording directory alone
InitRecSpec ==
  /\ InitRecording
  /\ kind = "Uniform" /\ rate = Some(1) /\ h5data = << >> /\ h5clock = << >>
  /\ short = FALSE /\ closed = FALSE
  /\ rd = [r \in {1} |-> NoRead] /\ ap = NoAppend

SpecRec == InitRecSpec /\ [][NextRec]_vars

\* With the Recording closed at any moment: reads of the whole signal or of
\* one index range or interval, with no cap or a cap of one sample or second
ReadArgsClose ==
  { a \in ReadArgs : /\ a[1] \in {None, <<0, 1>>}
                     /\ a[2] \in {None, <<0, 1>>, <<0, MaxLen>>}
                     /\ a[3] \in {None, Some(1)}
                     /\ a[4] \in {None, Some(1)} }

NextClose ==
  \/ \E r \in Readers :
       /\ rd[r].pc = "none"
       /\ \E a \in ReadArgsClose : ReadCall(r, a[1], a[2], a[3], a[4])
  \/ \E r \in Readers : ReadDrop(r)
  \/ \E r \in Readers : ReadFirst(r)
  \/ \E r \in Readers : ReadNext(r)
  \/ /\ ap.pc = "idle"
     /\ \E ts \in Series : AppendCall(ts)
  \/ AppendValues
  \/ Close

SpecClose == Init /\ [][NextClose]_vars

\* Reads of IndexRange(0, L-1), L the signal's length when read is called,
\* with no cap or a cap of one sample, among appends
NextSnap ==
  \/ \E r \in Readers :
       /\ rd[r].pc = "none"
       /\ \E p \in {None, Some(1)} : ReadCall(r, None, <<0, H5Len - 1>>, None, p)
  \/ \E r \in Readers : ReadDrop(r)
  \/ \E r \in Readers : ReadFirst(r)
  \/ \E r \in Readers : ReadNext(r)
  \/ /\ ap.pc = "idle"
     /\ \E ts \in Series : AppendCall(ts)
  \/ AppendValues

SpecSnap == Init /\ [][NextSnap]_vars

\* Two read sequences over a signal that holds samples and is not appended
\* to: the signal as opened from a store, of any length up to MaxLen, the
\* timestamps of an Explicit clock one tick apart up to MaxTime
InitStored ==
  /\ kind \in {"Uniform", "Explicit"}
  /\ rate \in IF kind = "Uniform" THEN { Some(r) : r \in Rates } ELSE {None}
  /\ \E n \in 0 .. MaxLen :
       /\ h5data = [i \in 1 .. n |-> Sample(i)]
       /\ h5clock = IF kind = "Uniform" THEN << >>
                    ELSE [i \in 1 .. n |-> Min(i - 1, MaxTime)]
  /\ short = FALSE
  /\ closed = FALSE
  /\ ap = NoAppend

InitTwo == InitStored /\ rd = [r \in {1, 2} |-> NoRead] /\ InitRec

\* Reads of the whole signal, of an index range given in either order with
\* end points inside and outside the signal, or of one interval; with no cap
\* or a cap of one sample
EndPoints == {-1, 0, 1, MaxLen}

ReadArgsTwo ==
  { a \in ReadArgs : /\ a[1] \in {None, <<0, 1>>}
                     /\ a[2] \in {None} \cup (EndPoints \X EndPoints)
                     /\ a[1] = None \/ a[2] = None
                     /\ a[3] = None
                     /\ a[4] \in {None, Some(1)} }

NextTwo ==
  \/ \E r \in Readers :
       /\ rd[r].pc = "none"
       /\ \E a \in ReadArgsTwo : ReadCall(r, a[1], a[2], a[3], a[4])
  \/ \E r \in Readers : ReadDrop(r)
  \/ \E r \in Readers : ReadFirst(r)
  \/ \E r \in Readers : ReadNext(r)

SpecTwo == InitTwo /\ [][NextTwo]_vars

\* Reads addressed by a time interval over a stored signal that is not
\* appended to, with timestamps and interval end points up to MaxStamp
MaxStored == 4    \* most samples the stored signal holds
MaxStamp  == 4    \* largest timestamp and interval end point, in ticks

Stamps == 0 .. MaxStamp

InitInterval ==
  /\ kind \in {"Uniform", "Explicit"}
  /\ rate \in IF kind = "Uniform" THEN { Some(r) : r \in Rates } ELSE {None}
  /\ \E n \in 0 .. MaxStored :
       /\ h5data = [i \in 1 .. n |-> Sample(i)]
       /\ h5clock \in IF kind = "Uniform" THEN { << >> }
                      ELSE { c \in [1 .. n -> Stamps] : NonDecreasing(c) }
  /\ short = FALSE
  /\ closed = FALSE
  /\ ap = NoAppend
  /\ rd = [r \in {1} |-> NoRead]
  /\ InitRec

NextInterval ==
  \/ \E r \in Readers :
       /\ rd[r].pc = "none"
       /\ \E s, e \in Stamps, p \in {None, Some(1)} :
            ReadCall(r, <<s, e>>, None, None, p)
  \/ \E r \in Readers : ReadDrop(r)
  \/ \E r \in Readers : ReadFirst(r)
  \/ \E r \in Readers : ReadNext(r)

SpecInterval == InitInterval /\ [][NextInterval]_vars

----------------------------------------------------------------------------
(* What a read sequence was asked for and what it has yielded *)

Frames == { rd[r] : r \in Readers }

\* The values of the yielded segments, concatenated in yield order
SegData(f) == Concat([i \in 1 .. Len(f.segs) |-> f.segs[i].data])

\* The index range (start_index, end_index) the addressing resolved to
StartIndex(f) == IF f.seg = None THEN 0 ELSE f.seg[1]
EndIndex(f)   == IF f.seg = None THEN f.len0 - 1 ELSE f.seg[2]

\* The part of that range inside the signal as it was when iteration started
FirstIn(f) == Max(0, StartIndex(f))
LastIn(f)  == Min(f.len0 - 1, EndIndex(f))
CountIn(f) == Max(0, LastIn(f) - FirstIn(f) + 1)

\* The stored values at indices a .. b, 0 <= a, b < len
Stored(a, b) == IF b < a THEN << >> ELSE SubSeq(h5data, a + 1, b + 1)

Yielding(f) == f.pc \in {"yielded", "done"}

----------------------------------------------------------------------------
(* C1 *)

----------------------------------------------------------------------------
(* C3 *)

\* round(n/d) for n >= 0, d > 0
Round(n, d) == (2 * n + d) \div (2 * d)

\* The chunk cap as C3 states it: "given" is "not None"
CapAsStated(f) ==
  LET pts == Round(rate[1] * f.maxduration[1], TimeDen)
      c == IF f.maxduration # None /\ f.maxpointsArg # None
           THEN Some(Min(f.maxpointsArg[1], pts))
           ELSE IF f.maxduration # None THEN Some(pts)
           ELSE f.maxpointsArg
  IN  IF c = None \/ c[1] <= 0 \/ c[1] > MAXPOINTS THEN MAXPOINTS ELSE c[1]

\* The chunk cap with a max_points or max_duration of 0 counted as not given
CapZeroNotGiven(f) ==
  LET d == IF f.maxduration = Some(0) THEN None ELSE f.maxduration
      p == IF f.maxpointsArg = Some(0) THEN None ELSE f.maxpointsArg
      pts == Round(rate[1] * d[1], TimeDen)
      c == IF d # None /\ p # None THEN Some(Min(p[1], pts))
           ELSE IF d # None THEN Some(pts)
           ELSE p
  IN  IF c = None \/ c[1] <= 0 \/ c[1] > MAXPOINTS THEN MAXPOINTS ELSE c[1]

\* The segments of f are chunks of cap samples, but for a shorter last one
ChunkedBy(f, cap) ==
  /\ \A i \in 1 .. Len(f.segs) :
       /\ Len(f.segs[i].data) = Min(cap, CountIn(f) - (i - 1) * cap)
       /\ Len(f.segs[i].data) >= 1
       /\ Len(f.segs[i].data) <= MAXPOINTS
  /\ f.pc = "done" => Len(f.segs) * cap >= CountIn(f)

----------------------------------------------------------------------------
(* C4 *)

\* C4: a read given both an interval and a segment has not got past its
\* first resumption, where it raised ValueError (InvalidArgument); it has
\* yielded no segment and made no call to the store
C4_BothAddressingsFail ==
  \A f \in Frames :
    f.interval # None /\ f.segment # None =>
      /\ f.pc \in {"created", "error"}
      /\ f.pc = "error" => f.err = "ValueError"
      /\ f.segs = << >>
      /\ f.nreq = 0

\* Such a read has failed, on an Explicit-clock signal with a max_duration
C4_Witness ==
  /\ kind = "Explicit"
  /\ \E f \in Frames :
       /\ f.interval # None /\ f.segment # None
       /\ Truthy(f.maxduration)
       /\ f.pc = "error"

----------------------------------------------------------------------------
(* C2 *)

\* C2: a read sequence ends as soon as the store returns zero samples for a
\* chunk request: no chunk is asked for, and no segment yielded, after a
\* segment of no samples
C2_EndsOnEmptyChunk ==
  \A f \in Frames :
    \A i \in 1 .. Len(f.segs) - 1 : Len(f.segs[i].data) > 0

----------------------------------------------------------------------------
(* C5 *)

AppendFailed(a) == a.pc = "idle" /\ a.result \notin {"", "ok"}

\* C5: on an Explicit-clock signal the stored timestamps are never fewer
\* than the stored values; while an append is between its two steps the
\* clock holds the new timestamps and the values are as they were when
\* append was called; and an append that fails writes no values
C5_ClockBeforeValues ==
  /\ [](kind = "Explicit" =>
          /\ Len(h5clock) >= Len(h5data)
          /\ ap.pc = "values" =>
               /\ Len(h5data) = ap.len0
               /\ h5clock = SubSeq(h5clock, 1, ap.len0) \o ap.series.times
          /\ ap.pc = "idle" => Len(h5clock) = Len(h5data))
  /\ [][kind = "Explicit" /\ AppendFailed(ap') => h5data' = h5data]_vars

\* A read sequence has yielded a segment and is suspended while an append is
\* between its clock step and its value step
C5_Witness ==
  /\ kind = "Explicit"
  /\ ap.pc = "values" /\ Len(ap.series.data) >= 1
  /\ Len(h5clock) > Len(h5data)
  /\ \E f \in Frames : f.pc = "yielded"

----------------------------------------------------------------------------
(* C6 *)

----------------------------------------------------------------------------
(* C7 *)

IsPrefix(s, t) == Len(s) <= Len(t) /\ s = SubSeq(t, 1, Len(s))

\* C7: on an Explicit-clock signal the stored timestamps are non-decreasing
\* and only ever grow at the end; a clock extension is accepted only for
\* timestamps that are non-decreasing and do not start below the last stored
\* one, and then appends exactly them; an append that is refused
\* (InvalidArgument) leaves stored timestamps and stored values as they were
C7_ClockAppendOnly ==
  /\ [](kind = "Explicit" => NonDecreasing(h5clock))
  /\ [][kind = "Explicit" =>
          /\ IsPrefix(h5clock, h5clock')
          /\ ap.pc = "idle" /\ ap'.pc = "values" =>
               LET times == ap'.series.times
               IN  /\ NonDecreasing(times)
                   /\ h5clock # << >> /\ times # << >> =>
                        times[1] >= h5clock[Len(h5clock)]
                   /\ h5clock' = h5clock \o times
          /\ ap'.result = "InvalidArgument" =>
               h5clock' = h5clock /\ h5data' = h5data]_vars

\* An append was refused after two or more timestamps were stored
C7_Witness ==
  /\ kind = "Explicit"
  /\ ap.pc = "idle" /\ ap.result = "InvalidArgument"
  /\ Len(h5clock) >= 2 /\ h5clock[1] < h5clock[Len(h5clock)]

----------------------------------------------------------------------------
(* C8 *)

\* C8, of the appends of one sample or more: no append of a series whose
\* clock variant differs from the signal's gets as far as writing values
C8_MismatchRejected ==
  ap.result = "ok" /\ Len(ap.series.data) >= 1 =>
    (ap.series.explicit <=> kind = "Explicit")

----------------------------------------------------------------------------
(* C9 *)

\* The URI strings in a Recording's URI list
UriSet(r) == { recs[r].uris[i] : i \in 1 .. Len(recs[r].uris) }

\* C9: each URI occurs at most once in a Recording's URI list, which holds
\* the keys of the URI-keyed map, as many as the Recording's length; and
\* add_signal raises DuplicateURI exactly when the signal's URI is in the
\* list, and then leaves the list, the map and the signals as they were
C9_UrisUnique ==
  /\ [](\A r \in RecIds :
          /\ \A i, j \in 1 .. Len(recs[r].uris) :
               recs[r].uris[i] = recs[r].uris[j] => i = j
          /\ DOMAIN recs[r].map = UriSet(r)
          /\ RecLen(r) = Len(recs[r].uris))
  /\ [][last'.op = "add_signal" =>
          IF sigs[last'.args[1]].uri.uri \in UriSet(last'.rec)
          THEN /\ last'.result = <<"raise", "DuplicateURI">>
               /\ recs' = recs /\ sigs' = sigs
          ELSE last'.result # <<"raise", "DuplicateURI">>]_vars

\* add_signal raised DuplicateURI for a signal that is not the member of
\* that URI, on a Recording of two signals
C9_Witness ==
  /\ last.op = "add_signal" /\ last.result = <<"raise", "DuplicateURI">>
  /\ RecLen(last.rec) >= 2
  /\ recs[last.rec].map[sigs[last.args[1]].uri.uri] # last.args[1]

----------------------------------------------------------------------------
(* C10 *)

IsIndex(r, i) == 0 <= i /\ i < Len(recs[r].uris)

\* The signals add_signal has put into Recording r
Members(r) == { s \in SigIds : sigs[s].recording = Some(RecObj(r)) }

----------------------------------------------------------------------------
(* C11 *)

\* C11, of the reads given one addressing or none: once the Recording is
\* closed, every resumption of a read sequence fails with StoreClosed (or,
\* for a max_duration on an Explicit-clock signal, with its TypeError),
\* every append fails, and nothing is read from or written to the store
C11_AllFailAfterClose ==
  [][closed =>
       /\ \A r \in Readers :
            /\ rd[r].pc \in {"created", "yielded"}
            /\ rd'[r].pc \in {"yielded", "done", "error"}
            /\ rd'[r] # rd[r]
            /\ rd[r].interval = None \/ rd[r].segment = None
            => /\ rd'[r].pc = "error"
               /\ rd'[r].err \in {"StoreClosed", "TypeError"}
       /\ ap' # ap => AppendFailed(ap')
       /\ h5data' = h5data /\ h5clock' = h5clock]_vars

----------------------------------------------------------------------------
(* C12 *)

\* The cursor of read sequence f when it yielded its i-th segment: the first
\* index of its range plus the samples of the segments before
CursorAt(f, i) ==
  FirstIn(f) + Len(Concat([j \in 1 .. i - 1 |-> f.segs[j].data]))

\* C12: on an Explicit-clock signal every segment yielded carries as many
\* timestamps as values, and they are the clock entries at the indices
\* cursor .. cursor+n-1, n the number of values the store returned
C12_TimestampsOfReturned ==
  kind = "Explicit" =>
    \A f \in Frames : \A i \in 1 .. Len(f.segs) :
      LET s == f.segs[i]
          c == CursorAt(f, i)
      IN  /\ Len(s.times) = Len(s.data)
          /\ s.times = SubSeq(h5clock, c + 1, c + Len(s.data))

----------------------------------------------------------------------------
(* C13 *)

\* The length L a read of IndexRange(0, L-1) was given
SnapLen(f) == f.segment[2] + 1

\* The values f has yielded are the first samples of the signal
YieldedPrefix(f) ==
  SegData(f) = Stored(0, Len(SegData(f)) - 1)

----------------------------------------------------------------------------
(* C14 *)

\* The segments a read of <<startpos, length>> with chunk cap maxpoints
\* yields when it runs alone to its end over the signal as it stands
RECURSIVE SoloLoop(_, _, _)
SoloLoop(startpos, length, maxpoints) ==
  IF length <= 0 THEN << >>
  ELSE LET mp == Min(maxpoints, length)
           data == PySlice(h5data, startpos, startpos + mp)
       IN  <<Segment(startpos, mp, data)>>
             \o SoloLoop(startpos + Len(data), length - Len(data), mp)

\* The segments the read f was called for yields when run alone
SoloSegs(f) ==
  LET sl == StartAndLength(ResolveSegment(f.interval, f.segment))
      mp == ResolveMaxPoints(f.maxduration, f.maxpointsArg,
                             IF rate = None THEN 0 ELSE rate[1])
  IN  SoloLoop(sl[1], sl[2], mp)

\* C14: with no append in flight each of the read sequences over a signal,
\* however they are interleaved, has yielded the first segments (lengths,
\* starts, values and timestamps) of what its read yields when run alone,
\* and all of them when it has ended
C14_SequencesIndependent ==
  \A r \in Readers :
    LET f == rd[r]
    IN  Yielding(f) =>
          /\ Len(f.segs) <= Len(SoloSegs(f))
          /\ f.segs = SubSeq(SoloSegs(f), 1, Len(f.segs))
          /\ f.pc = "done" => f.segs = SoloSegs(f)

\* Two sequences over one signal are both part way through, at different
\* positions, the one further on having been started with a different range
C14_Witness ==
  /\ rd[1].pc = "yielded" /\ rd[2].pc = "yielded"
  /\ Len(rd[1].segs) >= 2 /\ Len(rd[2].segs) = 1
  /\ rd[1].segment # rd[2].segment
  /\ rd[1].startpos # rd[2].startpos
  /\ rd[2].length > rd[2].n

----------------------------------------------------------------------------
(* C15 *)

\* C15: a read given both an interval and a segment fails in the read call
\* itself: no read sequence made from such a call is left waiting to be
\* resumed for its first segment
C15_FailsAtCall ==
  \A f \in Frames :
    f.interval # None /\ f.segment # None => f.pc # "created"

----------------------------------------------------------------------------
(* C16 *)

\* The Recordings of rs whose signal set holds signal s
OwnersIn(rs, s) ==
  { r \in RecIds : \E k \in DOMAIN rs[r].map : rs[r].map[k] = s }

Owners(s) == OwnersIn(recs, s)

\* The recording reference ref is set and is not Recording r
SetAndDiffers(ref, r) ==
  ref # None /\ ref # Some(RecUri(r)) /\ ref # Some(RecObj(r))

\* A signal is in the signal set of at most one Recording, which its
\* recording reference then is
AtMostOneOwner ==
  \A s \in SigIds :
    /\ Cardinality(Owners(s)) <= 1
    /\ \A r \in Owners(s) : sigs[s].recording = Some(RecObj(r))

\* A successful add_signal set signal.recording to the target, put the
\* signal into the target's set and nothing else, and returned the number
\* of signals the target held before
SuccessBinds ==
  last'.op = "add_signal" /\ last'.result[1] = "return" =>
    LET r == last'.rec
        s == last'.args[1]
    IN  /\ sigs' = [sigs EXCEPT ![s].recording = Some(RecObj(r))]
        /\ OwnersIn(recs', s) = {r}
        /\ \A q \in RecIds \ {r} : recs'[q] = recs[q]
        /\ last'.result[2] = RecLen(r)
        /\ Cardinality(DOMAIN recs'[r].map) = RecLen(r) + 1

----------------------------------------------------------------------------
(* C17 *)

\* C17: a read with segment = (a, b), a <= b, both within the signal, that
\* has ended yielded the values at the indices a up to but not including b
C17_EndExcluded ==
  \A f \in Frames :
    /\ f.pc = "done" /\ f.interval = None /\ f.segment # None
    /\ 0 <= f.segment[1] /\ f.segment[1] <= f.segment[2]
    /\ f.segment[2] < f.len0
    => SegData(f) = Stored(f.segment[1], f.segment[2] - 1)

----------------------------------------------------------------------------
(* C18 *)

\* index_at(t): for an Explicit clock the position of the first timestamp
\* >= t, the number of timestamps when there is none; for a Uniform clock
\* round(t * rate)
IndexAt(t) ==
  IF kind = "Explicit"
  THEN Cardinality({ i \in 1 .. Len(h5clock) : h5clock[i] < t })
  ELSE Round(t * rate[1], TimeDen)

\* The timestamps of the segments f has yielded, in yield order
SegTimes(f) == Concat([i \in 1 .. Len(f.segs) |-> f.segs[i].times])

\* The example of C18, with 0.1 second as the tick: timestamps 0.0, 0.1,
\* 0.3, 0.4 and Interval(0.1, 0.4)
ExampleClock == <<0, 1, 3, 4>>
ExampleInterval == <<1, 4>>

\* The number of chunks of at most MAXPOINTS samples that n samples make:
\* one when no chunk cap applies
Chunks(n) == (n + MAXPOINTS - 1) \div MAXPOINTS

----------------------------------------------------------------------------
(* C19 *)

\* The reads addressed by an index range alone
ByIndexRange(f) == f.interval = None /\ f.segment # None

\* The ends of the intersection of [min(a,b), max(a,b)] with [0, length-1],
\* length as measured when iteration started
RangeLo(f) == Max(0, Min(f.segment[1], f.segment[2]))
RangeHi(f) == Min(f.len0 - 1, Max(f.segment[1], f.segment[2]))

----------------------------------------------------------------------------
(* C20 *)

\* C20: on a Uniform-clock signal the start of every segment a read yields
\* is cursor / rate, the cursor being the first index of the resolved range
\* plus the samples of the segments yielded before; on an Explicit-clock
\* signal the start of every segment is 0
C20_SegmentStart ==
  \A f \in Frames : \A i \in 1 .. Len(f.segs) :
    f.segs[i].start = IF kind = "Uniform"
                      THEN <<CursorAt(f, i), rate[1]>>
                      ELSE <<0, 1>>

\* A read of a range that starts after index 0 has yielded two segments or
\* more on a Uniform-clock signal of 3 samples a second
C20_Witness ==
  /\ kind = "Uniform" /\ rate = Some(3)
  /\ \E f \in Frames :
       /\ Len(f.segs) >= 2
       /\ FirstIn(f) >= 1

====
